---- MODULE Spec2Model ----
(***************************************************************************)
(* Model of the capture-buffer-flush pipeline of modules/buffer.py         *)
(* (class BufferManager) as it is driven by main.py.                       *)
(*                                                                         *)
(* Two execution contexts touch the buffer:                                *)
(*   "main"  the Qt control thread.  handle_capture -> add_to_buffer,      *)
(*           start_monitoring -> set_buffer_size / start_auto_save,        *)
(*           check_save_times and the deferred call of stop_monitoring     *)
(*           -> _save_worker, stop_monitoring -> stop_auto_save.  Its      *)
(*           handlers run to completion one after the other.               *)
(*   "auto"  the daemon thread started by start_auto_save, running         *)
(*           _auto_save_worker.                                            *)
(* The two interleave at the granularity of one access to the shared       *)
(* fields (ram_buffer, image_hashes, buffer_count, max_size, stop_event).  *)
(***************************************************************************)
EXTENDS Integers, Sequences, FiniteSets, TLC

\* ---------------------------------------------------------------- bounds
\* number of images add_to_buffer admits past the duplicate check (also the
\* range of timestamps)
MaxAdds == 2
\* number of set_buffer_size calls explored
MaxResize == 1
\* longest capture interval explored, in tenths of a second
MaxInterval == 2
\* most comma-separated pieces in a process-name setting
MaxNames == 2
\* number of MonitorThread objects start_monitoring creates
MaxSessions == 2
\* most capture signals waiting in the event queue of the control thread
MaxCaptures == 1

\* ------------------------------------------------------ program constants
\* self.max_size = 100 in BufferManager.__init__
DefaultMaxSize == 100
\* self.interval = 60.0 in MonitorThread.__init__, in tenths of a second
DefaultInterval == 600

\* ------------------------------------------------------------ data values
\* distinct byte strings; MaxAdds admitted images have at most MaxAdds
\* different contents
Images == 1..MaxAdds
\* set_buffer_size arguments; a queue of MaxAdds or more slots is never full
Sizes == 1..MaxAdds

\* an image_data value hashlib.md5 rejects (an object that is not bytes-like)
NotBytes == 0

\* Python's None, also used for "no item"
None == <<>>

Threads == {"main", "auto"}

VARIABLES
    max_size,       \* self.max_size
    ram_buffer,     \* self.ram_buffer: the current Queue object
                    \*   [maxsize, queue]
    image_hashes,   \* self.image_hashes
    buffer_count,   \* self.buffer_count
    lock,           \* self.lock: "free" or the holder
    stop_event,     \* self.stop_event.is_set()
    pc,             \* position of each thread
    item,           \* _save_worker's local `item` of each thread
    ret,            \* where the control thread's _save_worker returns to
    cur,            \* add_to_buffer's locals (image_data, image_hash)
    old_buffer,     \* set_buffer_size's local: items still to re-insert
    clock,          \* time.time(), one tick per admitted image
    removed,        \* history: the items in the order get() returned them
    accepted,       \* history: timestamps of the items put into the buffer
    truncated,      \* history: timestamps dropped by set_buffer_size
    outcome,        \* history: what the call that returned in the last step
                    \*   reported ("none" when no call returned)
    held,           \* history: timestamps held when full() was found true
    sinceFlush,     \* history: contents put into the buffer since a flush
                    \*   last took a step
    used,           \* history: number of distinct contents seen so far
    resizes,        \* history: number of set_buffer_size calls made
    snapshot,       \* history: the queue as the running set_buffer_size
                    \*   found it (line 73), <<>> outside set_buffer_size
    filepath,       \* _save_worker's local `filepath` of each thread: the
                    \*   root it points into
    io,             \* history: the last disk operation and its result
    disk,           \* the files written: <<timestamp, root>>
    log,            \* log_manager entries about items: <<level, timestamp>>
    tries,          \* history: pixmap.save calls made for the item in hand
    denied,         \* history: a PermissionError was raised for the item in
                    \*   hand
    mpc,            \* MonitorThread: position of run()
    stop_flag,      \* MonitorThread.stop_flag
    is_running,     \* MonitorThread.is_running
    capture_enabled,        \* MonitorThread.capture_enabled
    foreground_detection,   \* MonitorThread.foreground_detection
    process_names,  \* MonitorThread.process_names
    interval,       \* MonitorThread.interval, in tenths of a second
    wait_i,         \* run(): iterations left of the interval wait loop
    pixmap,         \* run()'s local `pixmap`: "none" or the capture made
    signal,         \* the signal run() emitted in the last step, if any
    stop_pc,        \* position of the control thread inside stop()
    stop_called,    \* history: stop() has set the flag
    call,           \* history: the capture function run() called in the
                    \*   last step, if any
    had_error,      \* history: run() has caught an exception
    late,           \* history: capture signals emitted since
                    \*   capture_enabled last became false
    monitor_threads,    \* the MonitorThread objects created so far, by
                        \*   number: [pos, stop_flag, capture_enabled]
    monitor_thread,     \* SmartBoardApp.monitor_thread: a number, or NoThread
    is_monitoring,      \* SmartBoardApp.is_monitoring
    capture_events,     \* capture_signal emissions queued for the control
                        \*   thread: the number of the emitting thread
    app_pc,             \* position of the control thread inside
                        \*   start_monitoring / stop_monitoring
    created,            \* number of MonitorThread objects created
    auto_start_timer,   \* the QTimer.singleShot of __init__: "none",
                        \*   "pending" or "fired"
    buffered,           \* history: the add_to_buffer calls handle_capture
                        \*   made: [thread, stopped]
    stopped             \* history: the threads stop() was called on

shared == <<max_size, ram_buffer, image_hashes, buffer_count>>
locals == <<item, ret, cur, old_buffer>>
history == <<removed, accepted, truncated, held, sinceFlush>>
inputs == <<clock, used, resizes>>

persist == <<filepath, io, disk, log, tries, denied>>
app == <<monitor_threads, monitor_thread, is_monitoring, capture_events,
         app_pc, created, auto_start_timer, buffered, stopped>>
scheduler == <<mpc, stop_flag, is_running, capture_enabled,
               foreground_detection, process_names, interval, wait_i, pixmap,
               signal, stop_pc, stop_called, call, had_error, late>>
monitor == <<scheduler, app>>

buffer_manager == <<shared, lock, stop_event, pc, locals, history, outcome,
                    inputs, snapshot, persist>>

vars == <<shared, lock, stop_event, pc, locals, history, outcome, inputs,
          snapshot, persist, monitor>>

\* --------------------------------------------------------------- helpers
\* old_buffer[:size]
Prefix(s, n) == SubSeq(s, 1, IF Len(s) < n THEN Len(s) ELSE n)

\* faulty variant: queue.Queue() built without its maxsize argument (unbounded)
QueueUnbounded(size) == [maxsize |-> 0, queue |-> <<>>]

\* queue.Queue(maxsize=size), a fresh object
Queue(size) == [maxsize |-> size, queue |-> <<>>]
\* Queue.empty()
empty(q) == Len(q.queue) = 0
\* Queue.full(): 0 < maxsize <= qsize()
full(q) == 0 < q.maxsize /\ q.maxsize <= Len(q.queue)
\* Queue.qsize()
qsize(q) == Len(q.queue)

\* hashlib.md5(image_data).hexdigest(); None when md5 raises
calculate_image_hash(image_data) ==
    IF image_data \in Images THEN <<"md5", image_data>> ELSE None

\* the hashes of the items a queue holds (the None sentinel is not a hash)
HashesOf(q) == {q.queue[i].hash : i \in 1..Len(q.queue)} \ {None}
TimestampsOf(s) == {s[i].timestamp : i \in 1..Len(s)}

\* the positions inside lines 178-215, the handling of one item
SaveStages ==
    {"sw_save", "sv_makedirs_fallback", "sv_load", "sv_save",
     "sv_save_backup"}

InSaveWorker(t) ==
    pc[t] \in {"sw_empty", "sw_loop", "sw_get", "sw_blocked", "sw_stuck",
               "sw_count", "sw_clear"} \cup SaveStages

\* ------------------------------------------------------------------ Init
\* MonitorThread.__init__; the thread is not started
MonitorThread ==
    /\ mpc = "unstarted"
    /\ stop_flag = FALSE
    /\ is_running = FALSE
    /\ capture_enabled = FALSE
    /\ foreground_detection = TRUE
    /\ process_names = <<>>
    /\ interval = DefaultInterval
    /\ wait_i = 0
    /\ pixmap = "none"
    /\ signal = "none"
    /\ stop_pc = "idle"
    /\ stop_called = FALSE
    /\ call = "none"
    /\ had_error = FALSE
    /\ late = 0

\* BufferManager.__init__, nothing flushed yet
BufferManager ==
    /\ max_size = DefaultMaxSize
    /\ ram_buffer = Queue(DefaultMaxSize)
    /\ image_hashes = {}
    /\ buffer_count = 0
    /\ lock = "free"
    /\ stop_event = FALSE
    /\ pc = [t \in Threads |-> IF t = "main" THEN "idle" ELSE "off"]
    /\ item = [t \in Threads |-> None]
    /\ ret = "idle"
    /\ cur = None
    /\ old_buffer = <<>>
    /\ clock = 0
    /\ removed = <<>>
    /\ accepted = {}
    /\ truncated = {}
    /\ outcome = "none"
    /\ held = {}
    /\ sinceFlush = {}
    /\ used = 0
    /\ resizes = 0
    /\ snapshot = <<>>
    /\ filepath = [t \in Threads |-> "none"]
    /\ io = None
    /\ disk = {}
    /\ log = {}
    /\ tries = [t \in Threads |-> 0]
    /\ denied = [t \in Threads |-> FALSE]

\* the numbers of the MonitorThread objects
ThreadIds == 1..MaxSessions
\* self.monitor_thread = None
NoThread == 0
\* a MonitorThread that does not exist yet
Unborn == [pos |-> "none", stop_flag |-> FALSE, capture_enabled |-> FALSE]

\* SmartBoardApp.__init__ lines 159-165: no thread, not monitoring
SmartBoardApp ==
    /\ monitor_threads = [i \in ThreadIds |-> Unborn]
    /\ monitor_thread = NoThread
    /\ is_monitoring = FALSE
    /\ capture_events = <<>>
    /\ app_pc = "idle"
    /\ created = 0
    /\ auto_start_timer = "none"
    /\ buffered = {}
    /\ stopped = {}

\* SmartBoardApp before monitoring starts
Init == BufferManager /\ MonitorThread /\ SmartBoardApp

\* ------------------------------------------------ BufferManager.add_to_buffer
\* the image_data values a call can carry (main.py passes the PNG bytes of
\* ScreenshotManager.save_to_memory): contents are numbered in the order of
\* their first appearance
ImageData == 1..(IF used < MaxAdds THEN used + 1 ELSE MaxAdds)

\* the item dict built in lines 126-133 (the path fields are functions of
\* the timestamp and of save_path)
NewItem(data, hash) ==
    [data |-> data, timestamp |-> clock + 1, hash |-> hash]

\* lines 84-88: the duplicate check
IsDuplicate(image_hash) == image_hash # None /\ image_hash \in image_hashes

\* faulty variant: the hash is remembered without the test of line 91
RememberHashAlways(image_hash) == image_hashes \cup {image_hash}

\* lines 91-92: remember the hash of a new image
RememberHash(image_hash) ==
    IF image_hash # None THEN image_hashes \cup {image_hash} ELSE image_hashes

\* lines 80-92: take the lock, hash, duplicate check, remember the hash
add_begin(image_data) ==
    /\ pc["main"] = "idle"
    /\ lock = "free"
    /\ used' = IF image_data > used THEN image_data ELSE used
    /\ LET image_hash == calculate_image_hash(image_data) IN
       IF IsDuplicate(image_hash)
       THEN \* return inside `with self.lock`: nothing changes
            /\ outcome' = "DuplicateSkipped"
            /\ UNCHANGED <<shared, lock, pc, cur>>
       ELSE /\ clock < MaxAdds
            /\ image_hashes' = RememberHash(image_hash)
            /\ cur' = [image_data |-> image_data, image_hash |-> image_hash]
            /\ lock' = "main"
            /\ outcome' = "none"
            /\ pc' = [pc EXCEPT !["main"] = "add_full"]
            /\ UNCHANGED <<max_size, ram_buffer, buffer_count>>
    /\ UNCHANGED <<stop_event, item, ret, old_buffer, removed, accepted,
                   truncated, held, sinceFlush, clock, resizes>>
    /\ UNCHANGED <<snapshot, persist, monitor>>

\* the running add_to_buffer call found the queue full (a full queue holds
\* at least one item)
Forced == held # {}

\* faulty variant: a full buffer evicts its oldest item instead of flushing
add_full_evicts ==
    /\ pc["main"] = "add_full"
    /\ IF full(ram_buffer)
       THEN /\ held' = TimestampsOf(ram_buffer.queue)
            /\ ram_buffer' = [ram_buffer EXCEPT !.queue = Tail(@)]
       ELSE UNCHANGED <<held, ram_buffer>>
    /\ pc' = [pc EXCEPT !["main"] = "add_put"]
    /\ outcome' = "none"
    /\ UNCHANGED <<max_size, image_hashes, buffer_count, lock, stop_event,
                   locals, removed, accepted, truncated, sinceFlush, inputs>>
    /\ UNCHANGED <<snapshot, persist, monitor>>

\* lines 95-98: if self.ram_buffer.full(): self._save_worker()
add_full ==
    /\ pc["main"] = "add_full"
    /\ IF full(ram_buffer)
       THEN /\ held' = TimestampsOf(ram_buffer.queue)
            /\ ret' = "add_put"
            /\ pc' = [pc EXCEPT !["main"] = "sw_empty"]
       ELSE /\ pc' = [pc EXCEPT !["main"] = "add_put"]
            /\ UNCHANGED <<held, ret>>
    /\ outcome' = "none"
    /\ UNCHANGED <<shared, lock, stop_event, item, cur, old_buffer, removed,
                   accepted, truncated, sinceFlush, inputs>>
    /\ UNCHANGED <<snapshot, persist, monitor>>

\* lines 100-133: build the target path (os.makedirs may raise), then
\* lines 100-120 when os.makedirs raises (an OSError that is not a
\* PermissionError, or any error of the fallback makedirs): the exception
\* leaves `with self.lock` and add_to_buffer; the hash stays remembered
add_raise ==
    /\ pc["main"] = "add_put"
    /\ clock' = clock + 1
    /\ lock' = "free"
    /\ outcome' = "Raised"
    /\ held' = {}
    /\ cur' = None
    /\ pc' = [pc EXCEPT !["main"] = "idle"]
    /\ UNCHANGED <<shared, stop_event, item, ret, old_buffer, removed,
                   accepted, truncated, sinceFlush, used, resizes>>
    /\ UNCHANGED <<snapshot, persist, monitor>>

\* lines 100-133: timestamp = time.time(); ...; self.ram_buffer.put(...),
\* which blocks while the queue is full
add_put ==
    /\ pc["main"] = "add_put"
    /\ clock' = clock + 1
    /\ ~full(ram_buffer)
    /\ ram_buffer' = [ram_buffer EXCEPT !.queue =
           Append(@, NewItem(cur.image_data, cur.image_hash))]
    /\ accepted' = accepted \cup {clock + 1}
    /\ sinceFlush' = sinceFlush \cup {cur.image_data}
    /\ pc' = [pc EXCEPT !["main"] = "add_count"]
    /\ outcome' = "none"
    /\ UNCHANGED <<max_size, image_hashes, buffer_count, lock, stop_event,
                   item, ret, cur, held, old_buffer, removed, truncated, used,
                   resizes>>
    /\ UNCHANGED <<snapshot, persist, monitor>>

\* lines 135-141: self.buffer_count = self.ram_buffer.qsize(); return
add_count ==
    /\ pc["main"] = "add_count"
    /\ buffer_count' = qsize(ram_buffer)
    /\ lock' = "free"
    /\ outcome' = IF Forced THEN "AcceptedAfterForcedFlush" ELSE "Accepted"
    /\ held' = {}
    /\ cur' = None
    /\ pc' = [pc EXCEPT !["main"] = "idle"]
    /\ UNCHANGED <<max_size, ram_buffer, image_hashes, stop_event, item, ret,
                   old_buffer, removed, accepted, truncated, sinceFlush,
                   inputs>>
    /\ UNCHANGED <<snapshot, persist, monitor>>

\* ------------------------------------------------ BufferManager._save_worker
\* where _save_worker returns to
Return(t) == IF t = "main" THEN ret ELSE "check"

\* faulty variant: the early return on an empty queue is missing
sw_empty_falls_through(t) ==
    /\ pc[t] = "sw_empty"
    /\ pc' = [pc EXCEPT ![t] = "sw_loop"]
    /\ outcome' = IF empty(ram_buffer) THEN "EmptyFlush" ELSE "none"
    /\ sinceFlush' = {}
    /\ UNCHANGED <<shared, lock, stop_event, locals, removed, accepted,
                   truncated, held, inputs>>
    /\ UNCHANGED <<snapshot, persist, monitor>>

\* lines 170-171: if self.ram_buffer.empty(): return
sw_empty(t) ==
    /\ pc[t] = "sw_empty"
    /\ pc' = [pc EXCEPT ![t] = IF empty(ram_buffer) THEN Return(t)
                                                    ELSE "sw_loop"]
    /\ outcome' = IF empty(ram_buffer) THEN "EmptyFlush" ELSE "none"
    /\ sinceFlush' = {}
    /\ UNCHANGED <<shared, lock, stop_event, locals, removed, accepted,
                   truncated, held, inputs>>
    /\ UNCHANGED <<snapshot, persist, monitor>>

\* line 175: while not self.ram_buffer.empty()
sw_loop(t) ==
    /\ pc[t] = "sw_loop"
    /\ pc' = [pc EXCEPT ![t] = IF empty(ram_buffer) THEN "sw_count"
                                                    ELSE "sw_get"]
    /\ outcome' = "none"
    /\ sinceFlush' = {}
    /\ UNCHANGED <<shared, lock, stop_event, locals, removed, accepted,
                   truncated, held, inputs>>
    /\ UNCHANGED <<snapshot, persist, monitor>>

\* Queue.get() returning the head of the queue
TakeHead(t) ==
    /\ item' = [item EXCEPT ![t] = Head(ram_buffer.queue)]
    /\ ram_buffer' = [ram_buffer EXCEPT !.queue = Tail(@)]
    /\ removed' = Append(removed, Head(ram_buffer.queue))
    /\ pc' = [pc EXCEPT ![t] = "sw_save"]
    /\ sinceFlush' = {}
    /\ outcome' = "none"

\* line 177: item = self.ram_buffer.get(); on an empty queue the call
\* blocks inside that Queue object
sw_get(t) ==
    /\ pc[t] = "sw_get"
    /\ IF empty(ram_buffer)
       THEN /\ pc' = [pc EXCEPT ![t] = "sw_blocked"]
            /\ sinceFlush' = {}
            /\ outcome' = "none"
            /\ UNCHANGED <<ram_buffer, item, removed>>
       ELSE TakeHead(t)
    /\ UNCHANGED <<max_size, image_hashes, buffer_count, lock, stop_event,
                   ret, cur, old_buffer, accepted, truncated, held, inputs>>
    /\ UNCHANGED <<snapshot, persist, monitor>>

\* a blocked get() wakes when an item is put into the Queue object it waits
\* on (a thread waiting on a replaced Queue object is at "sw_stuck")
sw_blocked(t) ==
    /\ pc[t] = "sw_blocked"
    /\ ~empty(ram_buffer)
    /\ TakeHead(t)
    /\ UNCHANGED <<max_size, image_hashes, buffer_count, lock, stop_event,
                   ret, cur, old_buffer, accepted, truncated, held, inputs>>
    /\ UNCHANGED <<snapshot, persist, monitor>>

\* lines 178-215: persist the item just taken.  Every path through these
\* lines (saved, saved under the fallback root, null pixmap, exception caught
\* by the outer except) touches only the disk and the log and returns to the
\* head of the loop.
sw_save(t) ==
    /\ pc[t] = "sw_save"
    /\ item' = [item EXCEPT ![t] = None]
    /\ pc' = [pc EXCEPT ![t] = "sw_loop"]
    /\ sinceFlush' = {}
    /\ outcome' = "none"
    /\ UNCHANGED <<shared, lock, stop_event, ret, cur, old_buffer, removed,
                   accepted, truncated, held, inputs>>
    /\ UNCHANGED <<snapshot, persist, monitor>>

\* ------------------------------------- _save_worker lines 178-215 in detail
\* The steps below are sw_save taken apart: each disk operation is one step
\* and its result is the environment's choice.
Primary == "save_path"
\* os.path.expanduser("~")/Documents/SmartBoardScreenshots
Fallback == "user_docs"

\* faulty variant: an exception in one item ends the whole flush
AfterExceptAborts(t) == Return(t)

\* lines 211-215: the outer `except Exception` ends the iteration of the
\* while loop, which goes on with the next test of empty()
AfterExcept(t) == "sw_loop"

\* lines 211-215: except Exception as e: add_log("ERROR", ...); the item is
\* not kept anywhere
Caught(t, op, root) ==
    /\ io' = [op |-> op, root |-> root, result |-> "raised",
              timestamp |-> item[t].timestamp]
    /\ log' = log \cup {<<"ERROR", item[t].timestamp>>}
    /\ item' = [item EXCEPT ![t] = None]
    /\ pc' = [pc EXCEPT ![t] = AfterExcept(t)]
    /\ UNCHANGED disk

\* the item in hand is done without an exception: back to the loop test
NextItem(t) ==
    /\ item' = [item EXCEPT ![t] = None]
    /\ pc' = [pc EXCEPT ![t] = "sw_loop"]

\* lines 203-206: saved_count += 1; add_log("INFO", "saved ...")
LogSaved(t) == log' = log \cup {<<"INFO", item[t].timestamp>>}

IoResult(t, op, root, result) ==
    io' = [op |-> op, root |-> root, result |-> result,
           timestamp |-> item[t].timestamp]

\* what the steps of lines 178-215 never touch
SaveFrame ==
    /\ sinceFlush' = {}
    /\ outcome' = "none"
    /\ UNCHANGED <<shared, lock, stop_event, ret, cur, old_buffer, removed,
                   accepted, truncated, held, inputs, snapshot, monitor>>

\* lines 178-184: filepath = item['filepath'];
\* os.makedirs(os.path.dirname(filepath), exist_ok=True)
sv_makedirs(t) ==
    /\ pc[t] = "sw_save"
    /\ filepath' = [filepath EXCEPT ![t] = Primary]
    /\ tries' = [tries EXCEPT ![t] = 0]
    /\ \/ /\ IoResult(t, "makedirs", Primary, "ok")
          /\ pc' = [pc EXCEPT ![t] = "sv_load"]
          /\ denied' = [denied EXCEPT ![t] = FALSE]
          /\ UNCHANGED <<item, log, disk>>
       \/ \* except PermissionError
          /\ IoResult(t, "makedirs", Primary, "PermissionError")
          /\ pc' = [pc EXCEPT ![t] = "sv_makedirs_fallback"]
          /\ denied' = [denied EXCEPT ![t] = TRUE]
          /\ UNCHANGED <<item, log, disk>>
       \/ \* any other exception is not caught by the inner except
          /\ Caught(t, "makedirs", Primary)
          /\ denied' = [denied EXCEPT ![t] = FALSE]
    /\ SaveFrame

\* lines 185-189: filepath = user_docs/basename; os.makedirs(user_docs)
sv_makedirs_fallback(t) ==
    /\ pc[t] = "sv_makedirs_fallback"
    /\ filepath' = [filepath EXCEPT ![t] = Fallback]
    /\ \/ /\ IoResult(t, "makedirs", Fallback, "ok")
          /\ pc' = [pc EXCEPT ![t] = "sv_load"]
          /\ UNCHANGED <<item, log, disk>>
       \/ Caught(t, "makedirs", Fallback)
    /\ UNCHANGED <<tries, denied>>
    /\ SaveFrame

\* lines 192-194: pixmap.loadFromData(item['data']); if not pixmap.isNull()
sv_load(t) ==
    /\ pc[t] = "sv_load"
    /\ \/ /\ IoResult(t, "loadFromData", filepath[t], "ok")
          /\ pc' = [pc EXCEPT ![t] = "sv_save"]
          /\ UNCHANGED item
       \/ \* a null pixmap: nothing is written and nothing is logged
          /\ IoResult(t, "loadFromData", filepath[t], "null")
          /\ NextItem(t)
    /\ UNCHANGED <<filepath, tries, denied, log, disk>>
    /\ SaveFrame

\* lines 196-197: pixmap.save(filepath, "PNG").  QPixmap.save reports a file
\* it could not write by returning False; the result is not looked at.
sv_save(t) ==
    /\ pc[t] = "sv_save"
    /\ tries' = [tries EXCEPT ![t] = @ + 1]
    /\ \/ /\ IoResult(t, "save", filepath[t], "True")
          /\ disk' = disk \cup {<<item[t].timestamp, filepath[t]>>}
          /\ LogSaved(t)
          /\ NextItem(t)
       \/ /\ IoResult(t, "save", filepath[t], "False")
          /\ LogSaved(t)
          /\ NextItem(t)
          /\ UNCHANGED disk
       \/ \* except Exception as save_error
          /\ IoResult(t, "save", filepath[t], "raised")
          /\ pc' = [pc EXCEPT ![t] = "sv_save_backup"]
          /\ UNCHANGED <<item, log, disk>>
    /\ UNCHANGED <<filepath, denied>>
    /\ SaveFrame

\* lines 198-204: os.makedirs(user_docs); pixmap.save(backup_path, "PNG");
\* filepath = backup_path
sv_save_backup(t) ==
    /\ pc[t] = "sv_save_backup"
    /\ \/ /\ Caught(t, "makedirs", Fallback)
          /\ UNCHANGED <<filepath, tries>>
       \/ /\ tries' = [tries EXCEPT ![t] = @ + 1]
          /\ \/ /\ IoResult(t, "save", Fallback, "True")
                /\ disk' = disk \cup {<<item[t].timestamp, Fallback>>}
                /\ filepath' = [filepath EXCEPT ![t] = Fallback]
                /\ LogSaved(t)
                /\ NextItem(t)
             \/ /\ IoResult(t, "save", Fallback, "False")
                /\ filepath' = [filepath EXCEPT ![t] = Fallback]
                /\ LogSaved(t)
                /\ NextItem(t)
                /\ UNCHANGED disk
             \/ /\ Caught(t, "save", Fallback)
                /\ UNCHANGED filepath
    /\ UNCHANGED denied
    /\ SaveFrame

\* lines 218-219: self.buffer_count = self.ram_buffer.qsize()
sw_count(t) ==
    /\ pc[t] = "sw_count"
    /\ buffer_count' = qsize(ram_buffer)
    /\ pc' = [pc EXCEPT ![t] = "sw_clear"]
    /\ sinceFlush' = {}
    /\ outcome' = "none"
    /\ UNCHANGED <<max_size, ram_buffer, image_hashes, lock, stop_event,
                   locals, removed, accepted, truncated, held, inputs>>
    /\ UNCHANGED <<snapshot, persist, monitor>>

\* faulty variant: the flush returns without clearing image_hashes
sw_clear_keeps(t) ==
    /\ pc[t] = "sw_clear"
    /\ pc' = [pc EXCEPT ![t] = Return(t)]
    /\ sinceFlush' = {}
    /\ outcome' = "Flushed"
    /\ UNCHANGED <<shared, lock, stop_event, locals, removed, accepted,
                   truncated, held, inputs>>
    /\ UNCHANGED <<snapshot, persist, monitor>>

\* line 222: self.image_hashes.clear(); return
sw_clear(t) ==
    /\ pc[t] = "sw_clear"
    /\ image_hashes' = {}
    /\ pc' = [pc EXCEPT ![t] = Return(t)]
    /\ sinceFlush' = {}
    /\ outcome' = "Flushed"
    /\ UNCHANGED <<max_size, ram_buffer, buffer_count, lock, stop_event,
                   locals, removed, accepted, truncated, held, inputs>>
    /\ UNCHANGED <<snapshot, persist, monitor>>

\* main.py check_save_times (line 671) and stop_monitoring (line 514):
\* _save_worker called from the control thread, without the lock
direct_flush ==
    /\ pc["main"] = "idle"
    /\ ret' = "idle"
    /\ pc' = [pc EXCEPT !["main"] = "sw_empty"]
    /\ UNCHANGED <<shared, lock, stop_event, item, cur, old_buffer, history,
                   inputs>>
    /\ outcome' = "none"
    /\ UNCHANGED <<snapshot, persist, monitor>>

\* ---------------------------------------------- BufferManager.set_buffer_size
\* lines 70-73: take the lock, self.max_size = size, snapshot the queue
resize_begin(size) ==
    /\ pc["main"] = "idle"
    /\ lock = "free"
    /\ resizes < MaxResize
    /\ resizes' = resizes + 1
    /\ lock' = "main"
    /\ max_size' = size
    /\ old_buffer' = ram_buffer.queue
    /\ snapshot' = ram_buffer.queue
    /\ pc' = [pc EXCEPT !["main"] = "resize_new"]
    /\ UNCHANGED <<ram_buffer, image_hashes, buffer_count, stop_event, item,
                   ret, cur, history, clock, used>>
    /\ outcome' = "none"
    /\ UNCHANGED <<persist, monitor>>

\* a get() blocked on the Queue object that is being replaced waits on an
\* object nothing is ever put into again
Orphan(p) == IF p = "sw_blocked" THEN "sw_stuck" ELSE p

\* faulty variant: the newest `size` items are kept
RetainedNewest(old, size) ==
    SubSeq(old, IF Len(old) > size THEN Len(old) - size + 1 ELSE 1, Len(old))

\* line 75: old_buffer[:size]
Retained(old, size) == Prefix(old, size)

\* line 74: self.ram_buffer = Queue(maxsize=size); line 75 slices
\* old_buffer[:size]
resize_new ==
    /\ pc["main"] = "resize_new"
    /\ ram_buffer' = Queue(max_size)
    /\ old_buffer' = Retained(old_buffer, max_size)
    /\ truncated' = truncated \cup
           (TimestampsOf(old_buffer) \ TimestampsOf(old_buffer'))
    /\ IF Len(old_buffer) = 0
       THEN /\ lock' = "free"
            /\ snapshot' = <<>>
            /\ pc' = [t \in Threads |->
                         IF t = "main" THEN "idle" ELSE Orphan(pc[t])]
       ELSE /\ pc' = [t \in Threads |->
                         IF t = "main" THEN "resize_put" ELSE Orphan(pc[t])]
            /\ UNCHANGED <<lock, snapshot>>
    /\ UNCHANGED <<max_size, image_hashes, buffer_count, stop_event, item,
                   ret, cur, removed, accepted, held, sinceFlush, inputs>>
    /\ outcome' = "none"
    /\ UNCHANGED <<persist, monitor>>

\* line 76: self.ram_buffer.put(item), once per retained item
resize_put ==
    /\ pc["main"] = "resize_put"
    /\ ~full(ram_buffer)
    /\ ram_buffer' = [ram_buffer EXCEPT !.queue = Append(@, Head(old_buffer))]
    /\ old_buffer' = Tail(old_buffer)
    /\ IF Len(old_buffer) = 1
       THEN /\ lock' = "free"
            /\ snapshot' = <<>>
            /\ pc' = [pc EXCEPT !["main"] = "idle"]
       ELSE UNCHANGED <<lock, pc, snapshot>>
    /\ UNCHANGED <<max_size, image_hashes, buffer_count, stop_event, item,
                   ret, cur, history, inputs>>
    /\ outcome' = "none"
    /\ UNCHANGED <<persist, monitor>>

\* ------------------------------- start_auto_save / stop_auto_save / the thread
\* lines 143-148: self.stop_event.clear(); Thread(...).start()
start_auto_save ==
    /\ pc["main"] = "idle"
    /\ pc["auto"] \in {"off", "done"}
    /\ stop_event' = FALSE
    /\ pc' = [pc EXCEPT !["auto"] = "check"]
    /\ UNCHANGED <<shared, lock, locals, history, inputs>>
    /\ outcome' = "none"
    /\ UNCHANGED <<snapshot, persist, monitor>>

\* lines 153-157: self.stop_event.set(); join(timeout=5) returns whether or
\* not the thread has ended
stop_auto_save ==
    /\ pc["main"] = "idle"
    /\ pc["auto"] # "off"
    /\ stop_event' = TRUE
    /\ UNCHANGED <<shared, lock, pc, locals, history, inputs>>
    /\ outcome' = "none"
    /\ UNCHANGED <<snapshot, persist, monitor>>

\* faulty variant: the loop flushes once more when it finds the event set
auto_check_final_flush ==
    /\ pc["auto"] = "check"
    /\ pc' = [pc EXCEPT !["auto"] = "sw_empty"]
    /\ UNCHANGED <<shared, lock, stop_event, locals, history, inputs>>
    /\ outcome' = "none"
    /\ UNCHANGED <<snapshot, persist, monitor>>

\* lines 164-166: while not self.stop_event.is_set(): self._save_worker();
\* self.stop_event.wait(self.save_interval)
auto_check ==
    /\ pc["auto"] = "check"
    /\ pc' = [pc EXCEPT !["auto"] = IF stop_event THEN "done" ELSE "sw_empty"]
    /\ UNCHANGED <<shared, lock, stop_event, locals, history, inputs>>
    /\ outcome' = "none"
    /\ UNCHANGED <<snapshot, persist, monitor>>

\* ------------------------------------------------------------ MonitorThread
\* A process-name setting is the text of a line edit; it is modelled as the
\* pieces text.split(',') yields, each made of blanks only (" ", which
\* strip() empties) or holding a name.  The empty text splits into <<"">>.
Pieces == {" ", "board.exe"}
ProcessTexts ==
    {<<"">>} \cup UNION {[1..n -> Pieces] : n \in 1..MaxNames}
Intervals == 1..MaxInterval

\* name.strip()
strip(piece) == IF piece = " " THEN "" ELSE piece

\* faulty variant: the pieces are stripped but blank ones are kept
ParseNamesKeepsBlanks(text) == [i \in 1..Len(text) |-> strip(text[i])]

\* [name.strip() for name in text.split(',') if name.strip()]
ParseNames(text) ==
    LET F[i \in 0..Len(text)] ==
            IF i = 0 THEN <<>>
            ELSE IF strip(text[i]) # "" THEN Append(F[i - 1], strip(text[i]))
                 ELSE F[i - 1]
    IN F[Len(text)]

\* main.py lines 415-419 and 614-621: `if settings['process_names']` is the
\* truth value of the text, false for the empty text only
ProcessNamesOf(text) ==
    IF text = <<"">> THEN <<>> ELSE ParseNames(text)

\* lines 78-82: which capture function a tick calls
CaptureMode ==
    IF foreground_detection /\ process_names # <<>> THEN "window"
                                                    ELSE "screen"

\* what a step of the thread leaves alone unless it says otherwise
Settings == <<foreground_detection, process_names, interval>>

\* start_monitoring lines 406-437: a new MonitorThread gets the settings of
\* the GUI and is started; capture is not yet enabled
start(fd, text, iv) ==
    /\ mpc = "unstarted"
    /\ foreground_detection' = fd
    /\ process_names' = ProcessNamesOf(text)
    /\ interval' = iv
    /\ mpc' = "run"
    /\ signal' = "none"
    /\ call' = "none"
    /\ UNCHANGED <<stop_flag, is_running, capture_enabled, wait_i, pixmap,
                   stop_pc, stop_called, had_error, late, buffer_manager, app>>

\* lines 52-54: self.capture_enabled = enable
enable_capture(enable) ==
    /\ mpc # "unstarted"
    /\ stop_pc = "idle"
    /\ capture_enabled' = enable
    /\ late' = IF enable \/ capture_enabled THEN 0 ELSE late
    /\ signal' = "none"
    /\ call' = "none"
    /\ UNCHANGED <<mpc, stop_flag, is_running, Settings, wait_i, pixmap,
                   stop_pc, stop_called, had_error, buffer_manager, app>>

\* on_settings_changed lines 589-621, applied to the running thread
on_settings_changed(fd, text, iv) ==
    /\ mpc # "unstarted"
    /\ stop_pc = "idle"
    /\ foreground_detection' = fd
    /\ process_names' = ProcessNamesOf(text)
    /\ interval' = iv
    /\ signal' = "none"
    /\ call' = "none"
    /\ UNCHANGED <<mpc, stop_flag, is_running, capture_enabled, wait_i,
                   pixmap, stop_pc, stop_called, had_error, late,
                   buffer_manager, app>>

\* lines 112-114: self.stop_flag = True under the mutex; lines 117-118: wait
\* only if the thread is running
stop ==
    /\ mpc # "unstarted"
    /\ stop_pc = "idle"
    /\ stop_flag' = TRUE
    /\ stop_called' = TRUE
    /\ stop_pc' = IF mpc = "finished" THEN "returned" ELSE "wait"
    /\ signal' = "none"
    /\ call' = "none"
    /\ UNCHANGED <<mpc, is_running, capture_enabled, Settings, wait_i,
                   pixmap, had_error, late, buffer_manager, app>>

\* line 118: self.wait(2000) returns when the thread has ended or after two
\* seconds, whichever comes first
stop_wait ==
    /\ stop_pc = "wait"
    /\ stop_pc' = "returned"
    /\ signal' = "none"
    /\ call' = "none"
    /\ UNCHANGED <<mpc, stop_flag, is_running, capture_enabled, Settings,
                   wait_i, pixmap, stop_called, had_error, late,
                   buffer_manager, app>>

\* what the steps of run() leave alone
RunFrame ==
    UNCHANGED <<capture_enabled, Settings, stop_pc, stop_called,
                buffer_manager, app>>

\* lines 62-65: self.is_running = True; self.stop_flag = False; signals
run_begin ==
    /\ mpc = "run"
    /\ is_running' = TRUE
    /\ stop_flag' = FALSE
    /\ signal' = "status:started"
    /\ call' = "none"
    /\ mpc' = "while"
    /\ UNCHANGED <<wait_i, pixmap, had_error, late>>
    /\ RunFrame

\* line 67: while not self.stop_flag
run_while ==
    /\ mpc = "while"
    /\ mpc' = IF stop_flag THEN "end" ELSE "tick"
    /\ signal' = "none"
    /\ call' = "none"
    /\ UNCHANGED <<stop_flag, is_running, wait_i, pixmap, had_error, late>>
    /\ RunFrame

\* faulty variant: the tick captures whether or not capture is enabled
run_tick_ignores_enable ==
    /\ mpc = "tick"
    /\ mpc' = "capture"
    /\ signal' = "none"
    /\ call' = "none"
    /\ UNCHANGED <<stop_flag, is_running, wait_i, pixmap, had_error, late>>
    /\ RunFrame

\* lines 70-72: if not self.capture_enabled: self.msleep(100); continue
run_tick ==
    /\ mpc = "tick"
    /\ mpc' = IF capture_enabled THEN "capture" ELSE "msleep"
    /\ signal' = "none"
    /\ call' = "none"
    /\ UNCHANGED <<stop_flag, is_running, wait_i, pixmap, had_error, late>>
    /\ RunFrame

\* line 71: self.msleep(100), then `continue`
run_msleep ==
    /\ mpc = "msleep"
    /\ mpc' = "while"
    /\ signal' = "none"
    /\ call' = "none"
    /\ UNCHANGED <<stop_flag, is_running, wait_i, pixmap, had_error, late>>
    /\ RunFrame

\* lines 75-82: the capture call; both capture functions return None when
\* they have no image (no matching window, a failed grab)
run_capture ==
    /\ mpc = "capture"
    /\ call' = CaptureMode
    /\ pixmap' \in {"none", CaptureMode}
    /\ mpc' = "emit"
    /\ signal' = "none"
    /\ UNCHANGED <<stop_flag, is_running, wait_i, had_error, late>>
    /\ RunFrame

\* lines 84-87: if pixmap: self.capture_signal.emit(pixmap)
run_emit ==
    /\ mpc = "emit"
    /\ IF pixmap # "none"
       THEN /\ signal' = "capture"
            /\ late' = IF capture_enabled THEN late ELSE late + 1
       ELSE /\ signal' = "none"
            /\ UNCHANGED late
    /\ call' = "none"
    /\ mpc' = "check"
    /\ UNCHANGED <<stop_flag, is_running, wait_i, pixmap, had_error>>
    /\ RunFrame

\* lines 90-94: if self.stop_flag: break; for i in range(int(interval * 10))
run_check ==
    /\ mpc = "check"
    /\ IF stop_flag
       THEN /\ mpc' = "end"
            /\ UNCHANGED wait_i
       ELSE /\ mpc' = "wait"
            /\ wait_i' = interval
    /\ signal' = "none"
    /\ call' = "none"
    /\ UNCHANGED <<stop_flag, is_running, pixmap, had_error, late>>
    /\ RunFrame

\* lines 94-97: one iteration of the wait loop: leave it when the range is
\* used up or the flag is set, else self.msleep(100)
run_wait ==
    /\ mpc = "wait"
    /\ IF wait_i = 0 \/ stop_flag
       THEN /\ mpc' = "while"
            /\ wait_i' = 0
       ELSE /\ wait_i' = wait_i - 1
            /\ UNCHANGED mpc
    /\ signal' = "none"
    /\ call' = "none"
    /\ UNCHANGED <<stop_flag, is_running, pixmap, had_error, late>>
    /\ RunFrame

\* an exception raised inside the try block of lines 68-97, after the
\* capture call (capture_screen and capture_foreground_window catch their
\* own exceptions and return None)
run_raise ==
    /\ mpc \in {"emit", "check", "wait"}
    /\ mpc' = "except"
    /\ signal' = "none"
    /\ call' = "none"
    /\ UNCHANGED <<stop_flag, is_running, wait_i, pixmap, had_error, late>>
    /\ RunFrame

\* faulty variant: the error ends the thread
AfterBackoffEnds == "end"

\* line 104: after self.msleep(1000) the while loop goes on
AfterBackoff == "while"

\* lines 99-103: except Exception: log_signal ERROR, status_signal "error"
run_except ==
    /\ mpc = "except"
    /\ signal' = "error"
    /\ had_error' = TRUE
    /\ mpc' = "backoff"
    /\ call' = "none"
    /\ UNCHANGED <<stop_flag, is_running, wait_i, pixmap, late>>
    /\ RunFrame

\* line 104: self.msleep(1000)
run_backoff ==
    /\ mpc = "backoff"
    /\ mpc' = AfterBackoff
    /\ signal' = "none"
    /\ call' = "none"
    /\ UNCHANGED <<stop_flag, is_running, wait_i, pixmap, had_error, late>>
    /\ RunFrame

\* lines 106-108: self.is_running = False; signals; run() returns
run_end ==
    /\ mpc = "end"
    /\ is_running' = FALSE
    /\ signal' = "status:stopped"
    /\ mpc' = "finished"
    /\ call' = "none"
    /\ UNCHANGED <<stop_flag, wait_i, pixmap, had_error, late>>
    /\ RunFrame

\* the steps of the thread
RunStep ==
    \/ run_begin
    \/ run_while
    \/ run_tick
    \/ run_msleep
    \/ run_capture
    \/ run_emit
    \/ run_check
    \/ run_wait
    \/ run_except
    \/ run_backoff
    \/ run_end

NextMonitor ==
    \/ \E fd \in BOOLEAN, text \in ProcessTexts, iv \in Intervals :
          start(fd, text, iv)
    \/ \E enable \in BOOLEAN : enable_capture(enable)
    \/ \E fd \in BOOLEAN, text \in ProcessTexts, iv \in Intervals :
          on_settings_changed(fd, text, iv)
    \/ stop
    \/ stop_wait
    \/ run_raise
    \/ RunStep

SpecMonitor == Init /\ [][NextMonitor]_vars

\* a started thread keeps running, and a timed wait returns
FairMonitor == SpecMonitor /\ WF_vars(RunStep) /\ WF_vars(stop_wait)

\* ---------------------------------- SmartBoardApp: monitoring sessions
\* The control thread's handlers that create, start and stop MonitorThread
\* objects, and the run() loop of each object, at the grain of the accesses
\* to stop_flag and capture_enabled.  The calls these handlers make into
\* BufferManager (set_buffer_size, start_auto_save, stop_auto_save,
\* add_to_buffer) are the actions modelled above; here add_to_buffer is
\* recorded as a call.
\* A thread's pos: "none" (no such object), "started" (start() called, run()
\* not yet entered), "loop" (at the test of the while loop), "capturing"
\* (past the capture_enabled test of a tick), "finished" (run() returned).

\* QThread.isRunning(): from start() until run() has returned
isRunning(i) == monitor_threads[i].pos \notin {"none", "finished"}

\* what the handlers and threads below leave alone
SessionFrame == UNCHANGED <<buffer_manager, scheduler>>

\* __init__ lines 196-215 with auto_start configured:
\* QTimer.singleShot(500 or 1000, self.start_monitoring)
auto_start ==
    /\ auto_start_timer = "none"
    /\ created = 0
    /\ app_pc = "idle"
    /\ auto_start_timer' = "pending"
    /\ UNCHANGED <<monitor_threads, monitor_thread, is_monitoring,
                   capture_events, app_pc, created, buffered, stopped>>
    /\ SessionFrame

\* start_monitoring lines 374-440, called by the start button or the tray
\* menu (both enabled only while not monitoring) or by the auto-start timer:
\* self.monitor_thread = MonitorThread(); ...start(); time.sleep(0.1).
\* Events are handled in the order they were queued.
start_monitoring(by) ==
    /\ app_pc = "idle"
    /\ capture_events = <<>>
    /\ created < MaxSessions
    /\ IF by = "timer"
       THEN auto_start_timer = "pending" /\ auto_start_timer' = "fired"
       ELSE ~is_monitoring /\ UNCHANGED auto_start_timer
    /\ created' = created + 1
    /\ monitor_threads' = [monitor_threads EXCEPT ![created + 1] =
           [pos |-> "started", stop_flag |-> FALSE,
            capture_enabled |-> FALSE]]
    /\ monitor_thread' = created + 1
    /\ app_pc' = "start_sleep"
    /\ UNCHANGED <<is_monitoring, capture_events, buffered, stopped>>
    /\ SessionFrame

\* start_monitoring lines 443-452: self.monitor_thread.enable_capture(True);
\* ...; self.is_monitoring = True
start_monitoring_enable ==
    /\ app_pc = "start_sleep"
    /\ monitor_threads' = [monitor_threads EXCEPT
           ![monitor_thread].capture_enabled = TRUE]
    /\ is_monitoring' = TRUE
    /\ app_pc' = "idle"
    /\ UNCHANGED <<monitor_thread, capture_events, created,
                   auto_start_timer, buffered, stopped>>
    /\ SessionFrame

\* stop_monitoring lines 495-504, called by the stop button, the tray menu
\* or quit_application, all only while monitoring: enable_capture(False);
\* if isRunning(): stop(), which sets stop_flag and waits.  When the thread
\* is not running the handler goes straight on to lines 508-517.
stop_monitoring ==
    /\ app_pc = "idle"
    /\ capture_events = <<>>
    /\ is_monitoring
    /\ IF monitor_thread # NoThread /\ isRunning(monitor_thread)
       THEN /\ monitor_threads' = [monitor_threads EXCEPT
                   ![monitor_thread] = [@ EXCEPT !.capture_enabled = FALSE,
                                                 !.stop_flag = TRUE]]
            /\ stopped' = stopped \cup {monitor_thread}
            /\ app_pc' = "stop_wait"
            /\ UNCHANGED is_monitoring
       ELSE /\ monitor_threads' =
                   IF monitor_thread # NoThread
                   THEN [monitor_threads EXCEPT
                            ![monitor_thread].capture_enabled = FALSE]
                   ELSE monitor_threads
            /\ is_monitoring' = FALSE
            /\ UNCHANGED <<stopped, app_pc>>
    /\ UNCHANGED <<monitor_thread, capture_events, created,
                   auto_start_timer, buffered>>
    /\ SessionFrame

\* MonitorThread.stop line 118 and stop_monitoring lines 505-517:
\* self.wait(2000) returns when the thread has ended or after two seconds,
\* whichever comes first; self.monitor_thread = None; ...;
\* self.is_monitoring = False
stop_monitoring_waited ==
    /\ app_pc = "stop_wait"
    /\ monitor_thread' = NoThread
    /\ is_monitoring' = FALSE
    /\ app_pc' = "idle"
    /\ UNCHANGED <<monitor_threads, capture_events, created,
                   auto_start_timer, buffered, stopped>>
    /\ SessionFrame

\* handle_capture lines 547-558, run by the control thread for the oldest
\* queued capture signal: dropped unless is_monitoring, else add_to_buffer
handle_capture ==
    /\ app_pc = "idle"
    /\ capture_events # <<>>
    /\ capture_events' = Tail(capture_events)
    /\ buffered' =
          IF is_monitoring
          THEN buffered \cup {[thread |-> Head(capture_events),
                               stopped |-> Head(capture_events) \in stopped]}
          ELSE buffered
    /\ UNCHANGED <<monitor_threads, monitor_thread, is_monitoring, app_pc,
                   created, auto_start_timer, stopped>>
    /\ SessionFrame

\* what a step of a thread leaves alone
ThreadFrame ==
    /\ UNCHANGED <<monitor_thread, is_monitoring, app_pc, created,
                   auto_start_timer, buffered, stopped>>
    /\ SessionFrame

\* MonitorThread.run lines 62-65 of thread i: self.stop_flag = False
thread_run(i) ==
    /\ monitor_threads[i].pos = "started"
    /\ monitor_threads' = [monitor_threads EXCEPT
           ![i] = [@ EXCEPT !.pos = "loop", !.stop_flag = FALSE]]
    /\ UNCHANGED capture_events
    /\ ThreadFrame

\* lines 67-72 and 106-108 of thread i: the loop ends when stop_flag is set;
\* a tick goes on to capture when capture_enabled, else it sleeps 100 ms and
\* tests again
thread_tick(i) ==
    /\ monitor_threads[i].pos = "loop"
    /\ monitor_threads[i].stop_flag \/ monitor_threads[i].capture_enabled
    /\ monitor_threads' = [monitor_threads EXCEPT ![i].pos =
           IF monitor_threads[i].stop_flag THEN "finished" ELSE "capturing"]
    /\ UNCHANGED capture_events
    /\ ThreadFrame

\* lines 74-97 of thread i: the capture call, capture_signal.emit(pixmap)
\* when it returned an image, the wait for the next tick
thread_capture(i) ==
    /\ monitor_threads[i].pos = "capturing"
    /\ monitor_threads' = [monitor_threads EXCEPT ![i].pos = "loop"]
    /\ \/ /\ Len(capture_events) < MaxCaptures
          /\ capture_events' = Append(capture_events, i)
       \/ UNCHANGED capture_events
    /\ ThreadFrame

NextSession ==
    \/ auto_start
    \/ \E by \in {"button", "timer"} : start_monitoring(by)
    \/ start_monitoring_enable
    \/ stop_monitoring
    \/ stop_monitoring_waited
    \/ handle_capture
    \/ \E i \in ThreadIds : thread_run(i)
    \/ \E i \in ThreadIds : thread_tick(i)
    \/ \E i \in ThreadIds : thread_capture(i)

SpecSession == Init /\ [][NextSession]_vars

\* ----------------------------------------------------------------- Next
Next ==
    \/ \E d \in ImageData : add_begin(d)
    \/ add_full
    \/ add_raise
    \/ add_put
    \/ add_count
    \/ \E t \in Threads : sw_empty(t)
    \/ \E t \in Threads : sw_loop(t)
    \/ \E t \in Threads : sw_get(t)
    \/ \E t \in Threads : sw_blocked(t)
    \/ \E t \in Threads : sw_save(t)
    \/ \E t \in Threads : sw_count(t)
    \/ \E t \in Threads : sw_clear(t)
    \/ direct_flush
    \/ \E size \in Sizes : resize_begin(size)
    \/ resize_new
    \/ resize_put
    \/ start_auto_save
    \/ stop_auto_save
    \/ auto_check

Spec == Init /\ [][Next]_vars

\* The same program with the auto-save thread never started and a disk that
\* never fails: every call is made by the main thread and runs to its end
\* before the next one begins.
NextSeq ==
    \/ \E d \in ImageData : add_begin(d)
    \/ add_full
    \/ add_put
    \/ add_count
    \/ sw_empty("main")
    \/ sw_loop("main")
    \/ sw_get("main")
    \/ sw_save("main")
    \/ sw_count("main")
    \/ sw_clear("main")
    \/ direct_flush
    \/ \E size \in Sizes : resize_begin(size)
    \/ resize_new
    \/ resize_put

SpecSeq == Init /\ [][NextSeq]_vars

\* The two threads of Spec, each of which keeps running: a handler or a
\* _save_worker call that has begun takes its next step when it can, and the
\* auto-save thread's timed wait ends.
MainStep ==
    \/ add_full
    \/ add_raise
    \/ add_put
    \/ add_count
    \/ sw_empty("main")
    \/ sw_loop("main")
    \/ sw_get("main")
    \/ sw_blocked("main")
    \/ sw_save("main")
    \/ sw_count("main")
    \/ sw_clear("main")
    \/ resize_new
    \/ resize_put

AutoStep ==
    \/ auto_check
    \/ sw_empty("auto")
    \/ sw_loop("auto")
    \/ sw_get("auto")
    \/ sw_blocked("auto")
    \/ sw_save("auto")
    \/ sw_count("auto")
    \/ sw_clear("auto")

FairSpec == Spec /\ WF_vars(MainStep) /\ WF_vars(AutoStep)

\* One control thread adding images and flushing them to a disk that may
\* fail at every operation.
FlushStep ==
    \/ sw_empty("main")
    \/ sw_loop("main")
    \/ sw_get("main")
    \/ sv_makedirs("main")
    \/ sv_makedirs_fallback("main")
    \/ sv_load("main")
    \/ sv_save("main")
    \/ sv_save_backup("main")
    \/ sw_count("main")
    \/ sw_clear("main")

NextFlush ==
    \/ \E d \in ImageData : add_begin(d)
    \/ add_full
    \/ add_put
    \/ add_count
    \/ direct_flush
    \/ FlushStep

SpecFlush == Init /\ [][NextFlush]_vars

\* a thread that is inside _save_worker keeps running
FairFlush == SpecFlush /\ WF_vars(FlushStep)

\* One control thread whose callers may also pass image data that cannot be
\* hashed; the disk never fails.
NextInputs ==
    \/ \E d \in ImageData \cup {NotBytes} : add_begin(d)
    \/ add_full
    \/ add_put
    \/ add_count
    \/ sw_empty("main")
    \/ sw_loop("main")
    \/ sw_get("main")
    \/ sw_save("main")
    \/ sw_count("main")
    \/ sw_clear("main")
    \/ direct_flush
    \/ \E size \in Sizes : resize_begin(size)
    \/ resize_new
    \/ resize_put

SpecInputs == Init /\ [][NextInputs]_vars

TypeOK ==
    /\ max_size \in Nat
    /\ buffer_count \in Nat
    /\ lock \in {"free", "main"}
    /\ stop_event \in BOOLEAN
    /\ clock \in 0..MaxAdds

\* ------------------------------------------------------------------ claims
\* no buffer operation is in progress on any thread
Quiescent == pc["main"] = "idle" /\ ~InSaveWorker("auto")

\* the main thread is executing add_to_buffer, or is about to call it
InAdd == pc["main"] \in {"idle", "add_full", "add_put", "add_count"}

\* C1: outside the two statements of set_buffer_size that replace the
\* capacity and then the queue, the buffer never holds more than max_size
\* items, whatever Add, Resize and flush calls were made.
C1_Capacity == pc["main"] # "resize_new" => qsize(ram_buffer) <= max_size

\* a resized buffer filled to its capacity
C1_Witness ==
    /\ resizes > 0
    /\ pc["main"] = "idle"
    /\ qsize(ram_buffer) = max_size

\* C2: within one unflushed window, an Add of bytes that were already
\* accepted is skipped as a duplicate: while no flush has taken a step since
\* an image was put into the buffer, the duplicate check rejects the same
\* bytes; and an Add that is skipped changes nothing in the buffer.
C2_WouldSkip ==
    Quiescent =>
        \A d \in sinceFlush : IsDuplicate(calculate_image_hash(d))

C2_SkipChangesNothing ==
    outcome' = "DuplicateSkipped" => UNCHANGED <<shared, removed>>

C2_DedupWithinWindow == []C2_WouldSkip /\ [][C2_SkipChangesNothing]_vars

\* C3: no accepted image is lost to capacity pressure: every item that was
\* put into the buffer is still held, was taken by a flush, or was dropped by
\* a resize; and an Add that found the buffer full inserts its item only
\* after every item held at that moment was taken by a flush, into a buffer
\* that then holds exactly the new item.
C3_NoLoss ==
    accepted \subseteq
        (TimestampsOf(ram_buffer.queue) \cup TimestampsOf(removed)
            \cup truncated \cup TimestampsOf(old_buffer))

C3_ForcedPut ==
    (pc["main"] = "add_put" /\ pc'["main"] = "add_count" /\ Forced) =>
        /\ held \subseteq TimestampsOf(removed)
        /\ ram_buffer'.queue = <<NewItem(cur.image_data, cur.image_hash)>>

C3_ForcedFlushNoLoss == []C3_NoLoss /\ [][C3_ForcedPut]_vars

\* an Add that found the buffer full has flushed and inserted its item
C3_Witness ==
    /\ pc["main"] = "add_count"
    /\ Forced
    /\ held \subseteq TimestampsOf(removed)

\* C4: when an Add that forced a flush returns, image_hashes is exactly the
\* hash of the item it inserted.
C4_Step ==
    (pc["main"] = "add_count" /\ pc'["main"] = "idle" /\ Forced) =>
        image_hashes' = {cur.image_hash}

C4_HashesAfterForcedFlush == [][C4_Step]_vars

\* C5: whenever no buffer operation is in progress, image_hashes is exactly
\* the set of hashes of the items held in ram_buffer.
C5_SeenHashesExact == Quiescent => image_hashes = HashesOf(ram_buffer)

\* C6: the flush called from add_to_buffer and the flush of the auto-save
\* thread are never inside _save_worker at the same time.
C6_SingleFlush ==
    ~(InSaveWorker("main") /\ ret = "add_put" /\ InSaveWorker("auto"))

\* C7: once the auto-save thread's flush has drained the queue and until it
\* has cleared image_hashes, no step of add_to_buffer on the control thread
\* changes the queue or image_hashes.
C7_Step ==
    (pc["auto"] \in {"sw_count", "sw_clear"} /\ pc'["auto"] = pc["auto"]
        /\ InAdd) =>
        UNCHANGED <<ram_buffer, image_hashes>>

C7_DrainAtomic == [][C7_Step]_vars

\* C8: the buffer holds its items in insertion order and the flushes take
\* them out in that order: timestamps never decrease along the queue nor
\* along the sequence of removals.
Ordered(s) ==
    \A i, j \in 1..Len(s) : i < j => s[i].timestamp <= s[j].timestamp

C8_OrderPreserved == Ordered(ram_buffer.queue) /\ Ordered(removed)

\* C9: a flush called on an empty buffer returns at once and changes
\* nothing: no item is taken, and the queue, image_hashes and buffer_count
\* are as before; and a flush the control thread has completed leaves the
\* buffer empty, so that calling it again is that same no-op.
C9_Step ==
    \A t \in Threads :
        /\ (pc[t] = "sw_empty" /\ pc'[t] # "sw_empty" /\ empty(ram_buffer)) =>
              /\ ~InSaveWorker(t)'
              /\ UNCHANGED <<shared, item, removed>>
        /\ (t = "main" /\ pc[t] = "sw_clear" /\ pc'[t] # "sw_clear") =>
              empty(ram_buffer')

C9_FlushIdempotent == [][C9_Step]_vars

\* a flush called on an empty buffer has just returned
C9_Witness == outcome = "EmptyFlush" /\ empty(ram_buffer) /\ Quiescent

\* C10: when a flush of a non-empty buffer has just completed, no flushed
\* image is remembered: the duplicate check admits the bytes of every item
\* flushed so far.
C10_ForgetsAcrossFlush ==
    outcome = "Flushed" =>
        \A i \in 1..Len(removed) : ~IsDuplicate(removed[i].hash)

\* the buffer holds an image whose bytes were flushed earlier
C10_Witness ==
    \E i \in 1..Len(removed), j \in 1..Len(ram_buffer.queue) :
        /\ ram_buffer.queue[j].data = removed[i].data
        /\ ram_buffer.queue[j].timestamp > removed[i].timestamp

\* C11: in a flush, every item taken from the queue is attempted; an
\* exception raised while persisting one item is caught and logged as ERROR
\* and the loop goes on with the next test of the queue, never out of the
\* flush; the loop is left only on an empty queue, and a flush that was
\* started ends with the buffer empty.
C11_Step ==
    LET t == "main" IN
    /\ (pc[t] = "sw_save" /\ pc'[t] # "sw_save") =>
          /\ io'.op = "makedirs"
          /\ io'.timestamp = item[t].timestamp
    /\ (pc[t] \in SaveStages /\ pc'[t] # pc[t]) =>
          pc'[t] \in SaveStages \cup {"sw_loop"}
    /\ (pc[t] \in SaveStages /\ pc'[t] \notin SaveStages
            /\ io'.result = "raised") =>
          <<"ERROR", item[t].timestamp>> \in log'
    /\ (pc[t] = "sw_loop" /\ pc'[t] = "sw_count") => empty(ram_buffer)

C11_Terminates ==
    (pc["main"] = "sw_empty") ~>
        (outcome \in {"Flushed", "EmptyFlush"} /\ empty(ram_buffer))

C12_AtMostTwice == \A t \in Threads : tries[t] <= 2

C12_Step ==
    LET t == "main" IN
    /\ (pc[t] = "sw_save" /\ io'.result = "PermissionError") =>
          pc'[t] = "sv_makedirs_fallback"
    /\ (pc[t] = "sv_save" /\ pc'[t] # pc[t] /\ io'.root = Primary
            /\ io'.result # "True") =>
          pc'[t] = "sv_save_backup"
    /\ (pc[t] \in {"sv_makedirs_fallback", "sv_save_backup"}
            /\ pc'[t] # pc[t] /\ io'.result \in {"raised", "False"}) =>
          /\ <<"ERROR", item[t].timestamp>> \in log'
          /\ pc'[t] = "sw_loop"

C12_BoundedRetry == []C12_AtMostTwice /\ [][C12_Step]_vars

\* C13: when pixmap.save fails to write an item to its primary path, the
\* flush next writes that item under the fallback root, and stays inside the
\* flush.
C13_Step ==
    LET t == "main" IN
    (pc[t] = "sv_save" /\ pc'[t] # pc[t] /\ io'.op = "save"
        /\ io'.root = Primary /\ io'.result \in {"False", "raised"}) =>
        /\ pc'[t] = "sv_save_backup"
        /\ item'[t] = item[t]

C13_FallbackOnWriteFailure == [][C13_Step]_vars

\* C14: once stop() has set the flag of a started thread, run() reaches its
\* end, whatever the interval and whenever stop() was called after start();
\* a thread waiting out its interval with the flag set leaves the wait at
\* its next check; and stop() itself returns.
C14_LeavesWait ==
    (mpc = "wait" /\ stop_flag /\ mpc' # mpc) => mpc' = "while"

C14_StopObserved ==
    /\ stop_called ~> (mpc = "finished")
    /\ (stop_pc = "wait") ~> (stop_pc = "returned")
    /\ [][C14_LeavesWait]_vars

\* C15: an exception raised inside an iteration of run() is caught and
\* reported with an error signal, is followed by the one-second backoff and
\* then by the next test of the while loop; run() goes to its end only from
\* a test that found the stop flag set.
C15_Step ==
    /\ (mpc = "except" /\ mpc' # mpc) =>
          (mpc' = "backoff" /\ signal' = "error")
    /\ (mpc = "backoff" /\ mpc' # mpc) => mpc' = "while"
    /\ (mpc # "end" /\ mpc' = "end") => stop_flag

C15_TickErrorContained == [][C15_Step]_vars

\* the thread captures again after it has caught an exception
C15_Witness == had_error /\ signal = "capture"

\* C16 as stated: while capture_enabled is false the thread calls no capture
\* function and emits no capture signal.
C16_Quiet ==
    (call' # "none" \/ signal' = "capture") => capture_enabled

C16_NoCaptureWhileDisabled == [][C16_Quiet]_vars

\* C16 as the code has it: a tick that finds capture_enabled false calls no
\* capture function and emits nothing, it sleeps 100 ms and goes back to the
\* test of the while loop; the tick that had passed the test before capture
\* was disabled still completes, so at most one capture signal is emitted
\* while capture stays disabled.
C16_Step ==
    /\ (mpc = "tick" /\ ~capture_enabled /\ mpc' # mpc) =>
          (mpc' = "msleep" /\ call' = "none" /\ signal' = "none")
    /\ (mpc = "msleep" /\ mpc' # mpc) =>
          (mpc' = "while" /\ call' = "none" /\ signal' = "none")

C16_AtMostOneLate == late <= 1

C16_PausedTicksSuppressed == []C16_AtMostOneLate /\ [][C16_Step]_vars

\* the tick in flight when capture was disabled has emitted its signal and
\* the thread now sleeps its quantum without capturing
C16_Witness == mpc = "msleep" /\ ~capture_enabled /\ late = 1

\* C17: an auto-save thread that tests its loop condition with stop_event
\* set ends without calling _save_worker again; no step of a thread that
\* has ended touches the buffer, whose items stay where they are.
C17_Step ==
    /\ (pc["auto"] = "check" /\ stop_event /\ pc'["auto"] # "check") =>
          (pc'["auto"] = "done" /\ UNCHANGED <<shared, removed>>)
    /\ (pc["auto"] = "done" /\ pc["main"] = "idle" /\ pc'["main"] = "idle")
          => UNCHANGED <<shared, removed>>

C17_NoFlushOnStop == [][C17_Step]_vars

\* the thread has ended on stop and left items in the buffer
C17_Witness ==
    /\ pc["auto"] = "done"
    /\ stop_event
    /\ pc["main"] = "idle"
    /\ ~empty(ram_buffer)

\* C18: a flush the control thread requests while the auto-save thread is
\* alive always returns, and on an empty buffer it returns at once without
\* changing anything.
C18_EmptyNoOp ==
    (pc["main"] = "sw_empty" /\ ret = "idle" /\ empty(ram_buffer)
        /\ pc'["main"] # pc["main"]) =>
        (pc'["main"] = "idle" /\ UNCHANGED <<shared, removed>>)

C18_FlushNowCompletes ==
    /\ (pc["main"] = "sw_empty" /\ ret = "idle") ~> (pc["main"] = "idle")
    /\ [][C18_EmptyNoOp]_vars

\* C19: a tick that captures calls capture_foreground_window only when
\* foreground detection is on and the list of process names is not empty,
\* and capture_screen otherwise; the list never holds a blank name, so a
\* setting of blanks and commas is an empty list; and the capture step of a
\* tick always goes on to the emit step.
C19_Step ==
    /\ (mpc = "capture" /\ mpc' # mpc) =>
          /\ mpc' = "emit"
          /\ call' \in {"window", "screen"}
          /\ call' = "window" <=>
                (foreground_detection /\ Len(process_names) > 0)
          /\ pixmap' \in {"none", call'}
    /\ (mpc # "capture") => call' = "none"

C19_NamesClean ==
    \A i \in 1..Len(process_names) : process_names[i] \notin {"", " "}

C19_CaptureMode == []C19_NamesClean /\ [][C19_Step]_vars

\* with foreground detection on and no process name, a tick has captured the
\* whole screen
C19_Witness ==
    /\ mpc = "emit"
    /\ foreground_detection
    /\ process_names = <<>>
    /\ call = "screen"
    /\ pixmap = "screen"

\* C20: when set_buffer_size returns, the queue has the new capacity and
\* holds exactly the first min(len, capacity) items the call found, in
\* their order; the items beyond them are dropped and were not persisted.
C20_Step ==
    (pc["main"] \in {"resize_new", "resize_put"} /\ pc'["main"] = "idle") =>
        /\ ram_buffer'.maxsize = max_size
        /\ ram_buffer'.queue = Prefix(snapshot, max_size)
        /\ \A i \in 1..Len(snapshot) :
              i > max_size =>
                 /\ snapshot[i].timestamp \in truncated'
                 /\ snapshot[i].timestamp \notin TimestampsOf(removed')

C21_NeverSkipped ==
    /\ ~IsDuplicate(calculate_image_hash(NotBytes))
    /\ ~ENABLED (add_begin(NotBytes) /\ outcome' = "DuplicateSkipped")

C21_Step ==
    /\ (pc["main"] = "idle" /\ pc'["main"] = "add_full"
            /\ cur'.image_hash = None) =>
          /\ cur'.image_data = NotBytes
          /\ image_hashes' = image_hashes
    /\ (pc["main"] = "add_put" /\ pc'["main"] = "add_count"
            /\ cur.image_hash = None) =>
          /\ ram_buffer'.queue =
                Append(ram_buffer.queue,
                       [data |-> NotBytes, timestamp |-> clock',
                        hash |-> None])
          /\ image_hashes' = image_hashes

C21_UnhashableAdmitted == []C21_NeverSkipped /\ [][C21_Step]_vars

\* the same unhashable input was added twice and the buffer holds both
C21_Witness ==
    /\ pc["main"] = "idle"
    /\ qsize(ram_buffer) = 2
    /\ \A i \in 1..2 : /\ ram_buffer.queue[i].hash = None
                       /\ ram_buffer.queue[i].data = NotBytes
    /\ image_hashes = {}

\* C22: a file is written under the fallback root only for an item whose
\* handling met a PermissionError; no other failure sends an item there.
C22_Step ==
    \A f \in disk' \ disk : f[2] = Fallback => denied["main"]

C22_FallbackOnlyOnPermission == [][C22_Step]_vars

\* C23: while the flush that add_to_buffer forces on a full buffer persists
\* an item, add_to_buffer is not holding self.lock.
C23_NoLockAcrossWrite ==
    (pc["main"] = "sw_save" /\ ret = "add_put") => lock # "main"

\* C24: with the auto-save thread running, an add_to_buffer call that has
\* passed the duplicate check always returns and releases self.lock.
C24_AddReturns ==
    (pc["main"] = "add_full") ~> (pc["main"] = "idle" /\ lock = "free")

\* C27: when add_to_buffer raises after the duplicate check, it has added
\* neither the item to the buffer nor the item's hash to image_hashes.
C27_Step ==
    (pc["main"] = "add_put" /\ outcome' = "Raised") =>
        /\ ram_buffer' = ram_buffer
        /\ cur.image_hash \notin image_hashes'

C27_FailedAddLeavesNothing == [][C27_Step]_vars

\* C30: when an add_to_buffer, set_buffer_size or _save_worker call of the
\* control thread returns, buffer_count is the number of items ram_buffer
\* holds and is not more than max_size.
C30_Step ==
    (pc["main"] # "idle" /\ pc'["main"] = "idle") =>
        /\ buffer_count' = qsize(ram_buffer')
        /\ buffer_count' <= max_size'

C30_CountConsistent == [][C30_Step]_vars

\* the number of times get() has returned the item with this timestamp
Drained(ts) == Cardinality({i \in 1..Len(removed) : removed[i].timestamp = ts})

\* the items still waiting in the buffer or in a running set_buffer_size
Waiting == TimestampsOf(ram_buffer.queue) \cup TimestampsOf(old_buffer)

\* C28: an item put into the buffer and not truncated by a resize is never
\* handed to persistence twice, and until a flush has taken it it is still
\* held in the buffer.
C28_DrainedOnce ==
    \A ts \in accepted \ truncated :
        /\ Drained(ts) <= 1
        /\ Drained(ts) = 0 => ts \in Waiting

\* C26: when the final flush that stop_monitoring defers returns, after
\* stop_auto_save has set the stop event, the buffer is empty and every item
\* put into the buffer and not truncated has been taken by a flush exactly
\* once.
C26_Step ==
    (stop_event /\ ret = "idle" /\ pc["main"] \in {"sw_empty", "sw_clear"}
        /\ pc'["main"] = "idle") =>
        /\ empty(ram_buffer')
        /\ \A ts \in accepted' \ truncated' : Drained(ts)' = 1

C26_ShutdownDrains == [][C26_Step]_vars

\* a thread whose run loop has not exited and has not been told to exit
Active(i) == isRunning(i) /\ ~monitor_threads[i].stop_flag

\* C25: whenever the control thread is between handlers, at most one
\* MonitorThread is active, and an active MonitorThread is the one
\* SmartBoardApp.monitor_thread refers to.
C25_OneScheduler ==
    app_pc = "idle" =>
        /\ Cardinality({i \in ThreadIds : Active(i)}) <= 1
        /\ \A i \in ThreadIds : Active(i) => monitor_thread = i

\* C29: handle_capture passes nothing to add_to_buffer while is_monitoring is
\* false, and never passes on a capture of a thread that stop() was called
\* on.
C29_Step ==
    /\ ~is_monitoring => buffered' = buffered
    /\ \A b \in buffered' : ~b.stopped

C29_NoCaptureOutsideSession == [][C29_Step]_vars

====
